---- MODULE Spec2Model ----
(***************************************************************************)
(* State-machine model of src/api-client.ts: the module-level environment  *)
(* checks, the ApiClient constructor and its four asynchronous methods     *)
(* (initBrowser, cleanup, getEmbeddings, initCollection).                  *)
(*                                                                         *)
(* JavaScript is single-threaded: an async method runs without             *)
(* interruption up to its next `await`, so every method is split into one  *)
(* action per segment between awaits.  The external services (browser      *)
(* launcher, HTTP endpoint, embeddings SDK, vector store) answer           *)
(* nondeterministically.                                                   *)
(***************************************************************************)
EXTENDS Integers, Sequences, FiniteSets

VARIABLES
    env,          \* process.env: the four variables read at lines 8-11
    phase,        \* "start" | "fatal" | "loaded" | "constructed"
    qdrantClient, \* this.qdrantClient: present or not
    openaiClient, \* this.openaiClient: present or not
    browser,      \* this.browser: 0 = undefined, otherwise a browser handle
    running,      \* browser processes launched and not yet closed
    handles,      \* number of browser handles handed out by chromium.launch
    store,        \* names of the collections held by the vector store
    calls,        \* number of method invocations made so far
    call,         \* per caller: the invocation it is in (frame of locals)
    ready,        \* history: an initBrowser completed and no cleanup began since
    raced,        \* history: a launch was issued while another was in flight
    inited        \* history: names whose initCollection completed without error

vars == <<env, phase, qdrantClient, openaiClient, browser, running, handles,
          store, calls, call, ready, raced, inited>>

----------------------------------------------------------------------------
(* Bounds *)

NumCallers == 2
MaxCalls == 3

Callers == 1..NumCallers
Names == {"docs"}
Texts == {"hello"}
RemoteLens == {0, 768, 1536}

(* Program constant: the dimension passed to generateRandomEmbedding. *)
EmbeddingDim == 768

----------------------------------------------------------------------------
(* JavaScript values *)

\* An environment variable: unset, or a string given as its '/'-separated
\* segments (<<>> is the empty string).
Unset == [set |-> FALSE, segs |-> <<>>]
Str(segs) == [set |-> TRUE, segs |-> segs]

\* Truthiness of a string-or-undefined value (!X at lines 13, 17, 34, 57, 69).
Truthy(v) == v.set /\ v.segs # <<>>

\* String.prototype.endsWith('/v1') at line 59.
EndsWithV1(v) == Len(v.segs) >= 2 /\ v.segs[Len(v.segs)] = "v1"

Undefined == [tag |-> "undefined"]
Void == [tag |-> "void"]
Arr(n, src) == [tag |-> "array", len |-> n, src |-> src]

Pending == [tag |-> "pending"]
Returned(v) == [tag |-> "return", value |-> v]
Thrown(e) == [tag |-> "throw", error |-> e]

\* A thrown value: whether it is an Error object and which of the substrings
\* tested at lines 128 and 133 its message contains.
Err(isError, marks) == [tag |-> "thrown", isError |-> isError, msg |-> marks]
NoErr == [tag |-> "none"]

Includes(e, s) == s \in e.msg

TransportErrors ==
    { Err(TRUE, {"unauthorized"}), Err(TRUE, {"ECONNREFUSED"}),
      Err(TRUE, {"ETIMEDOUT"}), Err(TRUE, {"unauthorized", "ECONNREFUSED"}),
      Err(TRUE, {}), Err(FALSE, {"unauthorized"}), Err(FALSE, {"ECONNREFUSED"}) }

\* The vector store's refusal to create a collection that already exists.
ConflictError == Err(TRUE, {"already exists"})

McpError(code, text, wraps) ==
    [tag |-> "McpError", code |-> code, text |-> text, wraps |-> wraps]

----------------------------------------------------------------------------
(* Frames *)

Idle ==
    [op |-> "none", pc |-> "idle", arg |-> "", req |-> Undefined,
     posts |-> 0, sdk |-> 0, queries |-> 0, creates |-> 0,
     launches |-> 0, closes |-> 0, recv |-> 0,
     listed |-> {}, gotList |-> FALSE, caught |-> "none", failure |-> NoErr,
     afterReady |-> FALSE, afterInit |-> FALSE, overlapped |-> FALSE,
     result |-> Pending]

Free(p) == call[p].pc \in {"idle", "done"}
CanCall(p) == phase = "constructed" /\ Free(p) /\ calls < MaxCalls

EnvValues == {Unset, Str(<<>>), Str(<<"k">>)}
BaseValues == {Unset, Str(<<>>), Str(<<"http://h">>), Str(<<"http://h", "v1">>)}

Init ==
    /\ env \in [QDRANT_URL : EnvValues, QDRANT_API_KEY : EnvValues,
                OPENAI_API_KEY : EnvValues, OPENAI_BASE_URL : BaseValues]
    /\ phase = "start"
    /\ qdrantClient = FALSE
    /\ openaiClient = FALSE
    /\ browser = 0
    /\ running = {}
    /\ handles = 0
    /\ store \in SUBSET Names
    /\ calls = 0
    /\ call = [p \in Callers |-> Idle]
    /\ ready = FALSE
    /\ raced = FALSE
    /\ inited = {}

----------------------------------------------------------------------------
(* Module load and construction *)

\* Variant: the API-key check of lines 17-19 left out.
EnvCheckUrlOnly(e) ==
    IF ~Truthy(e.QDRANT_URL) THEN "fatal" ELSE "loaded"

\* The two module-level checks, in order (lines 13-19).
EnvCheck(e) ==
    IF ~Truthy(e.QDRANT_URL) THEN "fatal"
    ELSE IF ~Truthy(e.QDRANT_API_KEY) THEN "fatal"
    ELSE "loaded"

LoadModule ==
    /\ phase = "start"
    /\ phase' = EnvCheck(env)
    /\ UNCHANGED <<env, qdrantClient, openaiClient, browser, running, handles,
                   store, calls, call, ready, raced, inited>>

\* if (OPENAI_API_KEY) this.openaiClient = new OpenAI(...) (lines 34-39).
MakesOpenAI(e) == Truthy(e.OPENAI_API_KEY)

Construct ==
    /\ phase = "loaded"
    /\ phase' = "constructed"
    /\ qdrantClient' = TRUE
    /\ openaiClient' = MakesOpenAI(env)
    /\ UNCHANGED <<env, browser, running, handles, store, calls, call,
                   ready, raced, inited>>

----------------------------------------------------------------------------
(* initBrowser and cleanup *)

\* Variant: launch without testing the handle.
NeedsLaunchAlways(b) == TRUE

\* if (!this.browser) at line 43.
NeedsLaunch(b) == b = 0

\* initBrowser up to its await: the test and the call of chromium.launch().
InitBrowserCall(p) ==
    /\ CanCall(p)
    /\ calls' = calls + 1
    /\ IF NeedsLaunch(browser)
       THEN /\ call' = [call EXCEPT ![p] =
                   [Idle EXCEPT !.op = "initBrowser", !.pc = "awaitLaunch",
                                !.launches = 1, !.afterReady = ready]]
            /\ raced' = (raced \/ \E q \in Callers \ {p} :
                                     call[q].pc = "awaitLaunch")
       ELSE /\ call' = [call EXCEPT ![p] =
                   [Idle EXCEPT !.op = "initBrowser", !.pc = "done",
                                !.afterReady = ready,
                                !.result = Returned(Void)]]
            /\ raced' = raced
    /\ UNCHANGED <<env, phase, qdrantClient, openaiClient, browser, running,
                   handles, store, ready, inited>>

\* chromium.launch() settles: this.browser = <handle>, or the rejection
\* propagates out of initBrowser.
InitBrowserResume(p) ==
    /\ call[p].pc = "awaitLaunch"
    /\ \/ /\ handles' = handles + 1
          /\ running' = running \cup {handles + 1}
          /\ browser' = handles + 1
          /\ ready' = TRUE
          /\ call' = [call EXCEPT ![p].pc = "done",
                                  ![p].recv = handles + 1,
                                  ![p].result = Returned(Void)]
       \/ /\ call' = [call EXCEPT ![p].pc = "done",
                                  ![p].result = Thrown([tag |-> "launch"])]
          /\ UNCHANGED <<handles, running, browser, ready>>
    /\ UNCHANGED <<env, phase, qdrantClient, openaiClient, store, calls,
                   raced, inited>>

\* What cleanup leaves in this.browser once close() has resolved: the method
\* body ends at line 51 without assigning the field.
AfterClose(b) == b

\* cleanup up to its await: the test and the call of this.browser.close().
CleanupCall(p) ==
    /\ CanCall(p)
    /\ calls' = calls + 1
    /\ ready' = FALSE
    /\ IF browser # 0
       THEN call' = [call EXCEPT ![p] =
                [Idle EXCEPT !.op = "cleanup", !.pc = "awaitClose",
                             !.closes = 1, !.recv = browser]]
       ELSE call' = [call EXCEPT ![p] =
                [Idle EXCEPT !.op = "cleanup", !.pc = "done",
                             !.result = Returned(Void)]]
    /\ UNCHANGED <<env, phase, qdrantClient, openaiClient, browser, running,
                   handles, store, raced, inited>>

\* close() settles: the browser process is gone, or the rejection propagates.
CleanupResume(p) ==
    /\ call[p].pc = "awaitClose"
    /\ \/ /\ running' = running \ {call[p].recv}
          /\ browser' = AfterClose(browser)
          /\ call' = [call EXCEPT ![p].pc = "done",
                                  ![p].result = Returned(Void)]
       \/ /\ call' = [call EXCEPT ![p].pc = "done",
                                  ![p].result = Thrown([tag |-> "close"])]
          /\ UNCHANGED <<running, browser>>
    /\ UNCHANGED <<env, phase, qdrantClient, openaiClient, handles, store,
                   calls, ready, raced, inited>>

----------------------------------------------------------------------------
(* getEmbeddings *)

\* Variant: the direct path taken only when an API key is configured too.
RouteKeyed(e, client) ==
    IF Truthy(e.OPENAI_BASE_URL) /\ Truthy(e.OPENAI_API_KEY) THEN "direct"
    ELSE IF ~client THEN "none"
    ELSE "sdk"

\* The branch taken at lines 57 and 79.
Route(e, client) ==
    IF Truthy(e.OPENAI_BASE_URL) THEN "direct"
    ELSE IF ~client THEN "none"
    ELSE "sdk"

\* The endpoint built at lines 59-61.
OllamaUrl(base) ==
    IF EndsWithV1(base) THEN base.segs \o <<"embeddings">>
    ELSE base.segs \o <<"v1", "embeddings">>

\* The request handed to axios.post (lines 63-71).
PostRequest(e, text) ==
    [tag |-> "post", url |-> OllamaUrl(e.OPENAI_BASE_URL),
     model |-> "nomic-embed-text", input |-> text,
     auth |-> IF Truthy(e.OPENAI_API_KEY) THEN e.OPENAI_API_KEY ELSE Unset]

\* The request handed to openaiClient.embeddings.create (lines 86-89).
SdkRequest(text) ==
    [tag |-> "sdk", model |-> "nomic-embed-text", input |-> text]

JsTruthy(v) == v.tag # "undefined"
List(items) == [tag |-> "list", items |-> items]
First(l) == IF Len(l.items) = 0 THEN Undefined ELSE l.items[1]

\* What the remote may put under `data` of an embeddings response.
EmbeddingLists ==
    { Undefined, List(<<>>), List(<<[tag |-> "item", embedding |-> Undefined]>>) }
    \cup { List(<<[tag |-> "item", embedding |-> Arr(n, "remote")]>>) :
             n \in RemoteLens }

\* axios responses: response.data is absent, or an object with a `data` member.
HttpResponses ==
    { [tag |-> "response", data |-> Undefined] }
    \cup { [tag |-> "response", data |-> [tag |-> "object", data |-> d]] :
             d \in EmbeddingLists }

\* SDK responses: an object with a `data` member.
SdkResponses == { [tag |-> "object", data |-> d] : d \in EmbeddingLists }

\* Lines 73-76: the shape test, the return and the throw.
DirectBody(response) ==
    IF /\ JsTruthy(response.data)
       /\ JsTruthy(response.data.data)
       /\ JsTruthy(First(response.data.data))
       /\ JsTruthy(First(response.data.data).embedding)
    THEN Returned(First(response.data.data).embedding)
    ELSE Thrown("invalid_format")

\* Line 90: response.data[0].embedding, a TypeError when data or data[0]
\* is undefined.
SdkBody(response) ==
    IF ~JsTruthy(response.data) THEN Thrown("type_error")
    ELSE IF ~JsTruthy(First(response.data)) THEN Thrown("type_error")
    ELSE Returned(First(response.data).embedding)

\* Lines 101-105: `dimension` random numbers, each divided by the norm.
generateRandomEmbedding(dimension) == Arr(dimension, "random")

\* Variant: the error is rethrown instead of replaced by a fallback vector.
CatchRethrow(outcome) == outcome

\* The catch clause at lines 92-98.
Catch(outcome) ==
    IF outcome.tag = "throw"
    THEN Returned(generateRandomEmbedding(EmbeddingDim))
    ELSE outcome

Caught(outcome) == IF outcome.tag = "throw" THEN outcome.error ELSE "none"

\* getEmbeddings up to its first await (or to its end when nothing is awaited).
GetEmbeddingsCall(p, text) ==
    /\ CanCall(p)
    /\ calls' = calls + 1
    /\ LET r == Route(env, openaiClient)
           f == [Idle EXCEPT !.op = "getEmbeddings", !.arg = text]
       IN  call' = [call EXCEPT ![p] =
             CASE r = "direct" ->
                    [f EXCEPT !.pc = "awaitPost", !.posts = 1,
                              !.req = PostRequest(env, text)]
               [] r = "sdk" ->
                    [f EXCEPT !.pc = "awaitSdk", !.sdk = 1,
                              !.req = SdkRequest(text)]
               [] r = "none" ->
                    [f EXCEPT !.pc = "done", !.caught = "no_client",
                              !.result = Catch(Thrown("no_client"))]]
    /\ UNCHANGED <<env, phase, qdrantClient, openaiClient, browser, running,
                   handles, store, ready, raced, inited>>

\* Completion of getEmbeddings with the outcome of the try block.
Settle(p, outcome) ==
    /\ call' = [call EXCEPT ![p].pc = "done",
                            ![p].caught = Caught(outcome),
                            ![p].result = Catch(outcome)]
    /\ UNCHANGED <<env, phase, qdrantClient, openaiClient, browser, running,
                   handles, store, calls, ready, raced, inited>>

\* axios.post settles: a rejection, or a response of any shape.
GetEmbeddingsPostResume(p) ==
    /\ call[p].pc = "awaitPost"
    /\ \/ Settle(p, Thrown("network"))
       \/ \E response \in HttpResponses : Settle(p, DirectBody(response))

\* embeddings.create settles: a rejection, or a response of any shape.
GetEmbeddingsSdkResume(p) ==
    /\ call[p].pc = "awaitSdk"
    /\ \/ Settle(p, Thrown("network"))
       \/ \E response \in SdkResponses : Settle(p, SdkBody(response))

----------------------------------------------------------------------------
(* initCollection *)

\* Variants: the existence test inverted, and the test always failing.
ExistsInverted(list, name) == name \notin list
ExistsNever(list, name) == FALSE

\* collections.collections.some(c => c.name === COLLECTION_NAME) (line 110).
Exists(list, name) == name \in list

\* Variant: the message tests applied to any thrown value, Error or not.
ClassifyNoInstanceof(e) ==
    IF Includes(e, "unauthorized")
    THEN McpError("InvalidRequest", "authenticate", NoErr)
    ELSE IF Includes(e, "ECONNREFUSED") \/ Includes(e, "ETIMEDOUT")
    THEN McpError("InternalError", "connect", NoErr)
    ELSE McpError("InternalError", "initialize", e)

\* The catch clause at lines 126-144.
Classify(e) ==
    IF e.isError /\ Includes(e, "unauthorized")
    THEN McpError("InvalidRequest", "authenticate", NoErr)
    ELSE IF e.isError /\ (Includes(e, "ECONNREFUSED") \/ Includes(e, "ETIMEDOUT"))
    THEN McpError("InternalError", "connect", NoErr)
    ELSE McpError("InternalError", "initialize", e)

\* initCollection up to its first await: getCollections() is issued.
InitCollectionCall(p, name) ==
    /\ CanCall(p)
    /\ calls' = calls + 1
    /\ call' = [call EXCEPT ![p] =
          [Idle EXCEPT !.op = "initCollection", !.arg = name,
                       !.pc = "awaitList", !.queries = 1,
                       !.afterInit = (name \in inited)]]
    /\ UNCHANGED <<env, phase, qdrantClient, openaiClient, browser, running,
                   handles, store, ready, raced, inited>>

\* initCollection ends by throwing the classified error.
Fail(p, e) ==
    call' = [call EXCEPT ![p].pc = "done", ![p].failure = e,
                         ![p].result = Thrown(Classify(e))]

\* History: the other callers whose createCollection for p's name is pending.
Creating(p) ==
    { q \in Callers \ {p} :
        call[q].pc = "awaitCreate" /\ call[q].arg = call[p].arg }

\* getCollections() settles: a rejection, or the list; then the existence
\* test and, for a missing name, the call of createCollection.
InitCollectionListResume(p) ==
    /\ call[p].pc = "awaitList"
    /\ \/ /\ \E e \in TransportErrors : Fail(p, e)
          /\ UNCHANGED inited
       \/ IF Exists(store, call[p].arg)
          THEN /\ call' = [call EXCEPT ![p].pc = "done",
                                       ![p].listed = store,
                                       ![p].gotList = TRUE,
                                       ![p].result = Returned(Void)]
               /\ inited' = inited \cup {call[p].arg}
          ELSE /\ call' = [q \in Callers |->
                     IF q = p
                     THEN [call[q] EXCEPT !.pc = "awaitCreate",
                                          !.listed = store,
                                          !.gotList = TRUE,
                                          !.creates = 1,
                                          !.overlapped = Creating(p) # {}]
                     ELSE IF q \in Creating(p)
                     THEN [call[q] EXCEPT !.overlapped = TRUE]
                     ELSE call[q]]
               /\ UNCHANGED inited
    /\ UNCHANGED <<env, phase, qdrantClient, openaiClient, browser, running,
                   handles, store, calls, ready, raced>>

\* createCollection settles: a rejection (always, when the store already
\* holds the name), or the collection now exists.
InitCollectionCreateResume(p) ==
    /\ call[p].pc = "awaitCreate"
    /\ \/ /\ \E e \in TransportErrors : Fail(p, e)
          /\ UNCHANGED <<store, inited>>
       \/ /\ call[p].arg \in store
          /\ Fail(p, ConflictError)
          /\ UNCHANGED <<store, inited>>
       \/ /\ call[p].arg \notin store
          /\ store' = store \cup {call[p].arg}
          /\ inited' = inited \cup {call[p].arg}
          /\ call' = [call EXCEPT ![p].pc = "done",
                                  ![p].result = Returned(Void)]
    /\ UNCHANGED <<env, phase, qdrantClient, openaiClient, browser, running,
                   handles, calls, ready, raced>>

----------------------------------------------------------------------------
(* Specification *)

Next ==
    \/ LoadModule
    \/ Construct
    \/ \E p \in Callers : InitBrowserCall(p)
    \/ \E p \in Callers : InitBrowserResume(p)
    \/ \E p \in Callers : CleanupCall(p)
    \/ \E p \in Callers : CleanupResume(p)
    \/ \E p \in Callers, text \in Texts : GetEmbeddingsCall(p, text)
    \/ \E p \in Callers : GetEmbeddingsPostResume(p)
    \/ \E p \in Callers : GetEmbeddingsSdkResume(p)
    \/ \E p \in Callers, name \in Names : InitCollectionCall(p, name)
    \/ \E p \in Callers : InitCollectionListResume(p)
    \/ \E p \in Callers : InitCollectionCreateResume(p)

Spec == Init /\ [][Next]_vars

----------------------------------------------------------------------------
(* Properties *)

InOp(p, o) == call[p].op = o
Done(p) == call[p].pc = "done"
Ok(p) == call[p].result = Returned(Void)

\* C1: a getEmbeddings invocation never completes by raising: whatever the
\* configuration and whatever the external call did (success, rejection,
\* malformed or empty response, no embeddings client), it completes by
\* returning.
C1_NeverRaises ==
    \A p \in Callers :
        (InOp(p, "getEmbeddings") /\ Done(p)) => call[p].result.tag = "return"

C1_Witness ==
    \E p \in Callers :
        /\ InOp(p, "getEmbeddings") /\ Done(p)
        /\ call[p].caught = "network"
        /\ call[p].result.tag = "return"

\* C2: every completed getEmbeddings invocation returns a sequence of exactly
\* 768 numbers, on the direct-HTTP path, the SDK path and the fallback path,
\* whatever length of embedding the remote service answers with.
C2_Always768 ==
    \A p \in Callers :
        (InOp(p, "getEmbeddings") /\ Done(p)) =>
            /\ call[p].result.tag = "return"
            /\ call[p].result.value.tag = "array"
            /\ call[p].result.value.len = 768

\* C3: initCollection(name) issues no createCollection call when the list it
\* received contains name, and then completes without error; a call made
\* after an initCollection of the same name succeeded issues no creation and,
\* once its query is answered, completes without error.  No call issues more
\* than one creation.
C3_Idempotent ==
    \A p \in Callers :
        InOp(p, "initCollection") =>
            /\ call[p].creates <= 1
            /\ (call[p].gotList /\ call[p].arg \in call[p].listed) =>
                   (call[p].creates = 0 /\ Done(p) /\ Ok(p))
            /\ call[p].afterInit =>
                   (call[p].creates = 0 /\ (call[p].gotList => Ok(p)))

\* The first call created the collection; the second, made after it
\* succeeded, found the name and returned.
C3_Witness ==
    \E p, q \in Callers :
        /\ InOp(q, "initCollection") /\ Done(q) /\ Ok(q)
        /\ call[q].creates = 1
        /\ InOp(p, "initCollection") /\ Done(p) /\ Ok(p)
        /\ call[p].arg = call[q].arg
        /\ call[p].afterInit
        /\ call[p].gotList /\ call[p].arg \in call[p].listed
        /\ call[p].creates = 0

\* C4: every failure inside initCollection, of the query or of the creation,
\* reaches the caller as one classified McpError: an Error whose message
\* contains 'unauthorized' gives InvalidRequest (authentication); otherwise an
\* Error whose message contains 'ECONNREFUSED' or 'ETIMEDOUT' gives
\* InternalError (connection); anything else, a thrown non-Error included,
\* gives the generic InternalError wrapping the original value.
C4_Classified ==
    \A p \in Callers :
        (InOp(p, "initCollection") /\ call[p].failure.tag = "thrown") =>
            LET e == call[p].failure
                r == call[p].result
            IN  /\ Done(p)
                /\ r.tag = "throw"
                /\ r.error.tag = "McpError"
                /\ IF e.isError /\ "unauthorized" \in e.msg
                   THEN /\ r.error.code = "InvalidRequest"
                        /\ r.error.text = "authenticate"
                   ELSE IF e.isError /\ e.msg \cap {"ECONNREFUSED", "ETIMEDOUT"} # {}
                   THEN /\ r.error.code = "InternalError"
                        /\ r.error.text = "connect"
                   ELSE /\ r.error.code = "InternalError"
                        /\ r.error.text = "initialize"
                        /\ r.error.wraps = e

C4_Witness ==
    \E p \in Callers :
        /\ InOp(p, "initCollection") /\ Done(p)
        /\ call[p].creates = 1
        /\ call[p].failure = Err(TRUE, {"unauthorized"})
        /\ call[p].result.tag = "throw"
        /\ call[p].result.error.code = "InvalidRequest"

\* C5: when a cleanup that found a browser handle completes, the handle is
\* absent afterwards (the reference is released).
C5_CleanupReleases ==
    [][\A p \in Callers :
          (/\ call[p].pc = "awaitClose"
           /\ call'[p].pc = "done"
           /\ call'[p].result.tag = "return") => browser' = 0]_vars

\* C6: an initBrowser call made after an initBrowser completed successfully,
\* with no cleanup since, issues no launch, stores no handle and completes
\* at once without error.
C6_InitBrowserIdempotent ==
    \A p \in Callers :
        (InOp(p, "initBrowser") /\ call[p].afterReady) =>
            /\ call[p].launches = 0
            /\ call[p].recv = 0
            /\ Done(p) /\ Ok(p)
            /\ browser # 0

C6_Witness ==
    \E p \in Callers :
        /\ InOp(p, "initBrowser") /\ call[p].afterReady /\ Done(p)
        /\ handles = 1

\* C7: when QDRANT_URL or QDRANT_API_KEY is unset or empty, loading ends in
\* the fatal error and no client or browser handle ever exists; when both
\* are present the constructed instance holds the vector-store client, and
\* holds the embeddings client exactly when OPENAI_API_KEY is present.
C7_Construction ==
    LET has(v) == v.set /\ v.segs # <<>>
        required == has(env.QDRANT_URL) /\ has(env.QDRANT_API_KEY)
    IN  /\ ~required =>
            /\ phase \in {"start", "fatal"}
            /\ ~qdrantClient /\ ~openaiClient /\ browser = 0 /\ calls = 0
        /\ required => phase # "fatal"
        /\ phase # "constructed" => (~qdrantClient /\ ~openaiClient)
        /\ phase = "constructed" =>
            (qdrantClient /\ (openaiClient <=> has(env.OPENAI_API_KEY)))

C7_Witness ==
    /\ phase = "fatal"
    /\ env.QDRANT_URL = Str(<<"k">>)
    /\ env.QDRANT_API_KEY = Str(<<>>)
    /\ env.OPENAI_API_KEY = Str(<<"k">>)

\* C8 as stated: in every reachable state, interleaved initBrowser calls
\* included, at most one launched browser is not yet closed and every such
\* browser is the one held in the handle.
C8_AtMostOneBrowser ==
    /\ Cardinality(running) <= 1
    /\ running \subseteq {browser}

\* C8 as amended: the same, in the states reached without any launch having
\* been issued while another launch was pending.
C8_AtMostOneBrowserUnlessRaced ==
    ~raced => (Cardinality(running) <= 1 /\ running \subseteq {browser})

C8_Witness ==
    /\ ~raced
    /\ running = {browser}
    /\ \E p \in Callers : InOp(p, "initBrowser") /\ Done(p) /\ call[p].launches = 0
    /\ calls >= 2

\* C9: the external call of getEmbeddings is fixed by the configuration and
\* made at most once: with a base-URL override one HTTP POST and no SDK call,
\* with or without an API key; without override and with an embeddings client
\* one SDK call; without either no call at all, and the fallback vector is
\* returned.
C9_OneCallByConfig ==
    \A p \in Callers :
        InOp(p, "getEmbeddings") =>
            IF env.OPENAI_BASE_URL.set /\ env.OPENAI_BASE_URL.segs # <<>>
            THEN call[p].posts = 1 /\ call[p].sdk = 0 /\ call[p].req.tag = "post"
            ELSE IF openaiClient
            THEN call[p].posts = 0 /\ call[p].sdk = 1 /\ call[p].req.tag = "sdk"
            ELSE /\ call[p].posts = 0 /\ call[p].sdk = 0
                 /\ Done(p)
                 /\ call[p].result = Returned(Arr(768, "random"))

C9_Witness ==
    \E p \in Callers :
        /\ InOp(p, "getEmbeddings") /\ Done(p)
        /\ Truthy(env.OPENAI_BASE_URL) /\ ~Truthy(env.OPENAI_API_KEY)
        /\ call[p].posts = 1

\* Two callers are in (or have just completed) initCollection of one name and
\* neither was failed by the transport.
SameName(p, q) ==
    /\ p # q
    /\ InOp(p, "initCollection") /\ InOp(q, "initCollection")
    /\ call[p].arg = call[q].arg
    /\ call[p].failure \notin TransportErrors
    /\ call[q].failure \notin TransportErrors

====
